---- MODULE Spec2Model ----
(***************************************************************************)
(* N-dimensional maze generation (randomised Kruskal over a disjoint-set   *)
(* forest) and the can_move adjacency query of src/src/maze.rs, driven by  *)
(* the level loader of src/src/level/loader.rs.                            *)
(*                                                                         *)
(* Coordinates and dimension indices are 0-based as in the source: a point *)
(* is a function [0..DIMS-1 -> 0..U8Max].  Option<T> is modelled as a set  *)
(* with at most one element: None is {} and Some(v) is {v}.                *)
(***************************************************************************)
EXTENDS Integers, Sequences, FiniteSets, TLC

\* ------------------------------------------------------------------ bounds
\* Largest length of one dimension in the generated grids.
MaxLen == 3
\* Largest number of cells of a generated grid.
MaxCells == 4
\* Random draws (rng.next_u32()) range over 0..MaxDraw.
MaxDraw == 1
\* Number of disjoint-set nodes in the stand-alone try_merge specification.
NumNodes == 4
\* Orderings tallied per step in the ordering-count specification.
BatchSize == 24

\* --------------------------------------------------------- program constants
\* const DIMS of Maze<DIMS>; the loader's default is DimensionLength::Two.
DIMS == 2
\* Largest value of a u8 coordinate.
U8Max == 255

Dims == 0 .. (DIMS - 1)
None == {}
Some(v) == {v}
\* Weak::default(): a node without parent.
NoParent == -1

VARIABLES
    events,         \* LoadLevel events not yet handled by level_load_system
    pc,             \* "idle" | "loop": position inside Maze::new
    lengths,        \* Maze::new: the lengths argument
    cells,          \* Maze::new: HashMap coordinate -> disjoint-set node (its id)
    parent,         \* parent link of every disjoint-set node, NoParent for a root
    pending_edges,  \* Maze::new: the BinaryHeap of (draw, index, dim)
    walks,          \* Maze::new: the HashSet of accepted (a, b) pairs
    popped,         \* Maze::new: the candidate taken by the last pop, as Option
    mazes,          \* the Maze values built so far, in order of construction
    query,          \* the last can_move call and its result, as Option
    nodes,          \* try_merge specification: parent link of every node
    merged,         \* try_merge specification: the calls that returned true
    call,           \* try_merge specification: the last call, as Option
    idx,            \* unwrap_index specification: the last call, as Option
    tally           \* ordering-count specification: orderings done and mazes seen

genVars == <<events, pc, lengths, cells, parent, pending_edges, walks, popped, mazes, query>>
mergeVars == <<nodes, merged, call>>
vars == <<events, pc, lengths, cells, parent, pending_edges, walks, popped, mazes, query,
          nodes, merged, call, idx, tally>>

\* ------------------------------------------------------------ unwrap_index
RECURSIVE Product(_, _)
\* lengths.iter().map(|f| *f as usize).product(), over dimensions i..DIMS-1
Product(ls, i) == IF i >= DIMS THEN 1 ELSE ls[i] * Product(ls, i + 1)

cell_count(ls) == Product(ls, 0)

RECURSIVE unwrap_loop(_, _, _, _)
\* the for loop of unwrap_index, from dimension i on
unwrap_loop(ls, i, remaining_index, result) ==
    IF i >= DIMS
    THEN [result |-> result, remaining_index |-> remaining_index]
    ELSE unwrap_loop(ls, i + 1, remaining_index \div ls[i],
                     [result EXCEPT ![i] = (remaining_index % ls[i]) % (U8Max + 1)])

\* a faulty variant: the final remaining_index test is dropped
unwrap_index_unchecked(ls, index) ==
    Some(unwrap_loop(ls, 0, index, [i \in Dims |-> 0]).result)

unwrap_index(ls, index) ==
    LET r == unwrap_loop(ls, 0, index, [i \in Dims |-> 0])
    IN  IF r.remaining_index = 0 THEN Some(r.result) ELSE None

\* Option::unwrap on a Some
Unwrap(opt) == CHOOSE v \in opt : TRUE

\* ------------------------------------------------------- disjoint-set forest
RECURSIVE get_root(_, _)
get_root(par, s) == IF par[s] # NoParent THEN get_root(par, par[s]) ELSE s

\* a faulty variant: b itself, not its root, is attached to a's root
try_merge_attach_b(par, a, b) ==
    LET ra == get_root(par, a)
        rb == get_root(par, b)
    IN  IF ra # rb
        THEN [ret |-> TRUE, parent |-> [par EXCEPT ![b] = ra]]
        ELSE [ret |-> FALSE, parent |-> par]

\* a faulty variant: the two arguments are compared, not their roots
try_merge_no_find(par, a, b) ==
    LET ra == get_root(par, a)
        rb == get_root(par, b)
    IN  IF a # b
        THEN [ret |-> TRUE, parent |-> IF ra # rb THEN [par EXCEPT ![rb] = ra] ELSE par]
        ELSE [ret |-> FALSE, parent |-> par]

\* returns the result and the parent links after the call
try_merge(par, a, b) ==
    LET ra == get_root(par, a)
        rb == get_root(par, b)
    IN  IF ra # rb
        THEN [ret |-> TRUE, parent |-> [par EXCEPT ![rb] = ra]]
        ELSE [ret |-> FALSE, parent |-> par]

\* ---------------------------------------------------------------- Maze::new
\* a faulty variant: equal draws compare equal, whatever the index and dimension
tuple_le_draw_only(x, y) == x[1] <= y[1]

\* a faulty variant: the draw is left out of the comparison
tuple_le_no_draw(x, y) ==
    \/ x[2] < y[2]
    \/ x[2] = y[2] /\ x[3] <= y[3]

\* Ord of the heap's (u32, usize, usize) entries: lexicographic
tuple_le(x, y) ==
    \/ x[1] < y[1]
    \/ x[1] = y[1] /\ x[2] < y[2]
    \/ x[1] = y[1] /\ x[2] = y[2] /\ x[3] <= y[3]

\* the entries BinaryHeap::pop may return: the greatest ones
Greatest(heap) == {e \in heap : \A f \in heap : tuple_le(f, e)}

\* lines 27-31: one node per cell, keyed by coordinate, its id the index
new_cells(ls) ==
    LET keys == {Unwrap(unwrap_index(ls, index)) : index \in 0 .. (cell_count(ls) - 1)}
    IN  [pos \in keys |->
            CHOOSE index \in 0 .. (cell_count(ls) - 1) : unwrap_index(ls, index) = Some(pos)]

\* lines 33-38: every (index, dim) pushed with the next draw of the generator
new_pending_edges(ls, rng) ==
    {<<rng[index * DIMS + dim], index, dim>> :
        index \in 0 .. (cell_count(ls) - 1), dim \in Dims}

\* a faulty variant: the node is looked up by the mixed-radix sum of the coordinate
cells_get_by_sum(cs, ls, pos) ==
    LET sum == pos[0] + ls[0] * pos[1]
        hit == {p \in DOMAIN cs : cs[p] = sum}
    IN  {cs[p] : p \in hit}

\* cells.get(&pos)
cells_get(cs, ls, pos) == IF pos \in DOMAIN cs THEN Some(cs[pos]) ELSE None

\* lines 44-58: the body of the while loop for the popped (_, target_index, dim)
loop_body(ls, cs, par, ws, target_index, dim) ==
    LET a == Unwrap(unwrap_index(ls, target_index))
        b == [i \in Dims |-> IF i = dim THEN (a[i] + 1) % (U8Max + 1) ELSE a[i]]
        cell_a == cells_get(cs, ls, a)
        cell_b == cells_get(cs, ls, b)
    IN  IF a[dim] = ls[dim]
        THEN [parent |-> par, walks |-> ws]
        ELSE IF cell_a # None /\ cell_b # None
             THEN LET m == try_merge(par, Unwrap(cell_a), Unwrap(cell_b))
                  IN  [parent |-> m.parent,
                       walks |-> IF m.ret THEN ws \cup {<<a, b>>} ELSE ws]
             ELSE [parent |-> par, walks |-> ws]

RECURSIVE drain(_, _, _, _, _)
\* lines 43-59: the while loop run until the heap is empty; the walk-set it leaves
drain(ls, cs, par, ws, heap) ==
    IF heap = {}
    THEN ws
    ELSE LET e == CHOOSE x \in Greatest(heap) : TRUE
             r == loop_body(ls, cs, par, ws, e[2], e[3])
         IN  drain(ls, cs, r.parent, r.walks, heap \ {e})

\* Maze::new from its arguments to the Maze it returns
maze_new(ls, rng) ==
    [walks |-> drain(ls, new_cells(ls), [index \in 0 .. (cell_count(ls) - 1) |-> NoParent],
                     {}, new_pending_edges(ls, rng)),
     lengths |-> ls]

\* ------------------------------------------------------------------- queries
\* a faulty variant: only the start point is bounds-checked
check_pair_a_only(maze, a, b) ==
    IF \E index \in Dims : a[index] >= maze.lengths[index]
    THEN None
    ELSE Some(<<a, b>> \in maze.walks \/ <<b, a>> \in maze.walks)

\* a faulty variant: only the reversed pair is looked up
check_pair_reversed_only(maze, a, b) ==
    IF \E index \in Dims : a[index] >= maze.lengths[index] \/ b[index] >= maze.lengths[index]
    THEN None
    ELSE Some(<<b, a>> \in maze.walks)

check_pair(maze, a, b) ==
    IF \E index \in Dims : a[index] >= maze.lengths[index] \/ b[index] >= maze.lengths[index]
    THEN None
    ELSE Some(<<a, b>> \in maze.walks \/ <<b, a>> \in maze.walks)

can_move(maze, point, dimension) ==
    IF dimension \in Dims /\ point[dimension] + 1 <= U8Max
    THEN check_pair(maze, point,
                    [i \in Dims |-> IF i = dimension THEN point[i] + 1 ELSE point[i]])
    ELSE None

\* --------------------------------------------------- generation as a machine
\* the grids a LoadLevel event may ask for
Grids == {ls \in [Dims -> 1 .. MaxLen] : cell_count(ls) <= MaxCells}

\* the draws a seeded generator yields for a grid, one per candidate
Streams(ls) == [0 .. (cell_count(ls) * DIMS - 1) -> 0 .. MaxDraw]

\* coordinates used in queries: inside, on and beyond the bounds, and the u8 maximum
QueryCoords == 0 .. (MaxLen + 1) \cup {U8Max}

InitGen ==
    /\ \E ls \in Grids : \E rng \in Streams(ls) :
          events = << [rng_source |-> rng, dimensions |-> ls],
                      [rng_source |-> rng, dimensions |-> ls] >>
    /\ pc = "idle"
    /\ lengths = <<>>
    /\ cells = <<>>
    /\ parent = <<>>
    /\ pending_edges = {}
    /\ walks = {}
    /\ popped = None
    /\ mazes = <<>>
    /\ query = None

\* level_load_system takes the next event and Maze::new runs up to its while loop
Setup ==
    /\ pc = "idle"
    /\ events # <<>>
    /\ LET ev == Head(events)
           ls == ev.dimensions
       IN  /\ lengths' = ls
           /\ cells' = new_cells(ls)
           /\ parent' = [index \in 0 .. (cell_count(ls) - 1) |-> NoParent]
           /\ pending_edges' = new_pending_edges(ls, ev.rng_source)
    /\ events' = Tail(events)
    /\ walks' = {}
    /\ popped' = None
    /\ pc' = "loop"
    /\ UNCHANGED <<mazes, query>>

\* one iteration of the while loop
PopStep ==
    /\ pc = "loop"
    /\ pending_edges # {}
    /\ \E e \in Greatest(pending_edges) :
          LET r == loop_body(lengths, cells, parent, walks, e[2], e[3])
          IN  /\ popped' = Some(e)
              /\ pending_edges' = pending_edges \ {e}
              /\ parent' = r.parent
              /\ walks' = r.walks
    /\ UNCHANGED <<events, pc, lengths, cells, mazes, query>>

\* the heap is empty: the Maze is built and the generation's locals are dropped
Finish ==
    /\ pc = "loop"
    /\ pending_edges = {}
    /\ mazes' = Append(mazes, [walks |-> walks, lengths |-> lengths])
    /\ pc' = "idle"
    /\ lengths' = <<>>
    /\ cells' = <<>>
    /\ parent' = <<>>
    /\ walks' = {}
    /\ popped' = None
    /\ UNCHANGED <<events, pending_edges, query>>

\* a can_move call on a finished maze, once the levels are loaded
CanMove ==
    /\ pc = "idle"
    /\ events = <<>>
    /\ \E m \in 1 .. Len(mazes) : \E point \in [Dims -> QueryCoords] : \E dimension \in 0 .. DIMS :
          query' = Some([maze |-> m, point |-> point, dimension |-> dimension,
                         result |-> can_move(mazes[m], point, dimension)])
    /\ UNCHANGED <<events, pc, lengths, cells, parent, pending_edges, walks, popped, mazes>>

IdleGen ==
    /\ events = <<>>
    /\ pc = "idle"
    /\ lengths = <<>>
    /\ cells = <<>>
    /\ parent = <<>>
    /\ pending_edges = {}
    /\ walks = {}
    /\ popped = None
    /\ mazes = <<>>
    /\ query = None
IdleMerge == nodes = <<>> /\ merged = {} /\ call = None
IdleIndex == idx = None
IdleTally == tally = <<>>

Init == InitGen /\ IdleMerge /\ IdleIndex /\ IdleTally

Next ==
    \/ Setup /\ UNCHANGED <<nodes, merged, call, idx, tally>>
    \/ PopStep /\ UNCHANGED <<nodes, merged, call, idx, tally>>
    \/ Finish /\ UNCHANGED <<nodes, merged, call, idx, tally>>
    \/ CanMove /\ UNCHANGED <<nodes, merged, call, idx, tally>>

Spec == Init /\ [][Next]_vars

\* ------------------------------------------- try_merge called on its own
\* the nodes of the unit tests, created by MazeGenCell::new with ids 0..NumNodes-1
InitMerge ==
    /\ nodes = [id \in 0 .. (NumNodes - 1) |-> NoParent]
    /\ merged = {}
    /\ call = None

\* one MazeGenCell::try_merge(a, b) call
TryMergeCall ==
    \E a \in DOMAIN nodes : \E b \in DOMAIN nodes :
        LET r == try_merge(nodes, a, b)
        IN  /\ nodes' = r.parent
            /\ merged' = IF r.ret THEN merged \cup {<<a, b>>} ELSE merged
            /\ call' = Some([a |-> a, b |-> b, ret |-> r.ret])

MergeInit == InitMerge /\ IdleGen /\ IdleIndex /\ IdleTally

MergeNext == TryMergeCall /\ UNCHANGED <<genVars, idx, tally>>

SpecMerge == MergeInit /\ [][MergeNext]_vars

\* ----------------------------------------- unwrap_index called on its own
\* the indices tried: all of the largest grid and three beyond
MaxIndex == cell_count([i \in Dims |-> MaxLen]) + 2

\* one unwrap_index(lengths, index) call
UnwrapIndexCall ==
    \E ls \in [Dims -> 1 .. MaxLen] : \E index \in 0 .. MaxIndex :
        idx' = Some([lengths |-> ls, index |-> index, result |-> unwrap_index(ls, index)])

IndexInit == IdleIndex /\ IdleGen /\ IdleMerge /\ IdleTally

IndexNext == UnwrapIndexCall /\ UNCHANGED <<genVars, mergeVars, tally>>

SpecIndex == IndexInit /\ [][IndexNext]_vars

\* ------------------------- Maze::new run once for every ordering of a grid
\* the 2x3 grid: lengths [2, 3]
OrderGrid == [i \in Dims |-> IF i = 0 THEN 2 ELSE 3]

\* the heap slots index * DIMS + dim of the candidates that have a forward neighbour
InSlots(ls) ==
    {slot \in 0 .. (cell_count(ls) * DIMS - 1) :
        LET index == slot \div DIMS
            dim == slot % DIMS
        IN  Unwrap(unwrap_index(ls, index))[dim] + 1 < ls[dim]}

RECURSIVE Factorial(_)
Factorial(n) == IF n = 0 THEN 1 ELSE n * Factorial(n - 1)

RECURSIVE Perm(_, _)
\* the k-th permutation of 1..n: n inserted at place k % n of the (k \div n)-th of 1..n-1
Perm(n, k) ==
    IF n = 0
    THEN <<>>
    ELSE LET p == Perm(n - 1, k \div n)
             at == k % n
         IN  SubSeq(p, 1, at) \o <<n>> \o SubSeq(p, at + 1, n - 1)

\* the draws of the k-th ordering: distinct, the in-grid candidates ranked by Perm
DrawsOf(ls, k) ==
    LET ins == InSlots(ls)
        all == 0 .. (cell_count(ls) * DIMS - 1)
        p == Perm(Cardinality(ins), k)
        rank(slot, S) == Cardinality({t \in S : t < slot})
    IN  [slot \in all |->
            IF slot \in ins
            THEN Cardinality(all \ ins) + p[rank(slot, ins) + 1]
            ELSE rank(slot, all \ ins)]

Orderings == Factorial(Cardinality(InSlots(OrderGrid)))

InitTally == tally = [next |-> 0, count |-> <<>>]

\* Maze::new run for the orderings lo..hi: the pairs <<k, walk-set of ordering k>>
MadeBy(lo, hi) ==
    {<<k, maze_new(OrderGrid, DrawsOf(OrderGrid, k)).walks>> : k \in lo .. hi}

\* the count with the walk-sets of made added
Counted(count, made) ==
    [t \in DOMAIN count \cup {m[2] : m \in made} |->
        (IF t \in DOMAIN count THEN count[t] ELSE 0) + Cardinality({m \in made : m[2] = t})]

\* the next BatchSize orderings are run and their walk-sets counted
TallyBatch ==
    /\ tally.next < Orderings
    /\ LET last == IF tally.next + BatchSize < Orderings
                   THEN tally.next + BatchSize - 1 ELSE Orderings - 1
       IN  tally' = [next |-> last + 1,
                     count |-> Counted(tally.count, MadeBy(tally.next, last))]

OrderInit == InitTally /\ IdleGen /\ IdleMerge /\ IdleIndex

OrderNext == TallyBatch /\ UNCHANGED <<genVars, mergeVars, idx>>

SpecOrder == OrderInit /\ [][OrderNext]_vars

\* ------------------------------------------------------------ graph helpers
InGrid(ls, p) == \A i \in Dims : p[i] < ls[i]

GridCells(ls) ==
    LET top == CHOOSE v \in {ls[i] : i \in Dims} : \A i \in Dims : ls[i] <= v
    IN  {p \in [Dims -> 0 .. (top - 1)] : InGrid(ls, p)}

RECURSIVE Component(_, _)
\* the points reachable from S along the pairs of E, in either direction
Component(E, S) ==
    LET N == S \cup {w[2] : w \in {x \in E : x[1] \in S}}
                 \cup {w[1] : w \in {x \in E : x[2] \in S}}
    IN  IF N = S THEN S ELSE Component(E, N)

\* no pair of E closes a cycle: its ends are not joined by the other pairs
Acyclic(E) == \A w \in E : w[1] # w[2] /\ w[2] \notin Component(E \ {w}, {w[1]})

\* b is a with exactly the coordinate d one greater
ForwardOf(a, b, d) == b[d] = a[d] + 1 /\ \A i \in Dims \ {d} : b[i] = a[i]

\* the in-grid edges of the grid graph, stored forward
GridEdges(ls) ==
    {w \in GridCells(ls) \X GridCells(ls) : \E d \in Dims : ForwardOf(w[1], w[2], d)}

\* ------------------------------------------------------------------- claims

\* C1: every finished maze has exactly cellCount - 1 walks and every cell of its grid
\* is reachable from every other cell along walks taken in either direction.
C1_SpanningTree ==
    \A m \in 1 .. Len(mazes) :
        LET mz == mazes[m]
        IN  /\ Cardinality(mz.walks) = cell_count(mz.lengths) - 1
            /\ \A p \in GridCells(mz.lengths) :
                  GridCells(mz.lengths) \subseteq Component(mz.walks, {p})

\* a finished 2x2 maze (eight candidates, so some draws repeat) with its three walks
C1_Witness ==
    /\ Len(mazes) >= 1
    /\ cell_count(mazes[1].lengths) = 4
    /\ \A i \in Dims : mazes[1].lengths[i] = 2
    /\ Cardinality(mazes[1].walks) = 3

\* C2: the walk-set is a forest after every step of the generation loop, and in
\* every finished maze.
C2_Acyclic ==
    /\ Acyclic(walks)
    /\ \A m \in 1 .. Len(mazes) : Acyclic(mazes[m].walks)

\* the loop has just rejected an in-grid candidate that would have closed a cycle
C2_Witness ==
    /\ pc = "loop"
    /\ popped # None
    /\ LET e == Unwrap(popped)
           dim == e[3]
           a == Unwrap(unwrap_index(lengths, e[2]))
           b == [i \in Dims |-> IF i = dim THEN a[i] + 1 ELSE a[i]]
       IN  InGrid(lengths, b) /\ <<a, b>> \notin walks /\ Cardinality(walks) >= 3

\* C3: can_move is None for a dimension >= DIMS, for a point on the last position of
\* the dimension, for a point outside the grid and for a coordinate at the u8 maximum;
\* otherwise (point and forward neighbour inside the grid) it is Some(true) or Some(false).
C3_Boundary ==
    \A q \in query :
        LET ls == mazes[q.maze].lengths
            d == q.dimension
            undefined ==
                \/ d >= DIMS
                \/ q.point[d] = ls[d] - 1
                \/ \E i \in Dims : q.point[i] >= ls[i]
                \/ q.point[d] + 1 > U8Max
        IN  IF undefined THEN q.result = None ELSE q.result \in {Some(TRUE), Some(FALSE)}

\* a query from the last cell of a dimension, itself inside the grid, answered None
C3_Witness ==
    \E q \in query :
        /\ q.dimension \in Dims
        /\ InGrid(mazes[q.maze].lengths, q.point)
        /\ q.point[q.dimension] = mazes[q.maze].lengths[q.dimension] - 1
        /\ mazes[q.maze].lengths[q.dimension] >= 2
        /\ q.result = None

\* C4: with point and forward neighbour inside the grid, can_move is Some(true) exactly
\* when the generation recorded the edge between them, and Some(false) otherwise; every
\* recorded walk (a, b) gives can_move(a, connecting dimension) = Some(true).
C4_QueryMatchesWalks ==
    /\ \A q \in query :
          LET mz == mazes[q.maze]
              n == [i \in Dims |-> IF i = q.dimension THEN q.point[i] + 1 ELSE q.point[i]]
          IN  (q.dimension \in Dims /\ InGrid(mz.lengths, q.point) /\ InGrid(mz.lengths, n))
              => q.result = Some(\E w \in mz.walks : {w[1], w[2]} = {q.point, n})
    /\ \A m \in 1 .. Len(mazes) : \A w \in mazes[m].walks : \A d \in Dims :
          ForwardOf(w[1], w[2], d) => can_move(mazes[m], w[1], d) = Some(TRUE)

\* one query answered Some(true) on a maze that also has a closed in-grid edge
C4_Witness ==
    \E q \in query :
        /\ q.result = Some(TRUE)
        /\ GridEdges(mazes[q.maze].lengths) \ mazes[q.maze].walks # {}

\* C5: the two mazes built from the same lengths and the same draws are identical,
\* and every can_move query answers the same on both.
C5_Deterministic ==
    Len(mazes) = 2 =>
        /\ mazes[1] = mazes[2]
        /\ \A q \in query : q.result = can_move(mazes[3 - q.maze], q.point, q.dimension)

\* both runs are finished on a 2x2 grid, whose eight candidates share draws
C5_Witness ==
    /\ Len(mazes) = 2
    /\ cell_count(mazes[2].lengths) * DIMS > MaxDraw + 1
    /\ \A i \in Dims : mazes[2].lengths[i] = 2
    /\ \E q \in query : q.maze = 2 /\ q.result = Some(TRUE)

\* C7: a popped candidate whose forward neighbour is outside the grid changes neither
\* the forest nor the walk-set; every stored pair (a, b) has both ends inside the grid
\* and b is a with one coordinate one greater; the increment stays within a u8.
WalksForward(ws, ls) ==
    \A w \in ws :
        /\ InGrid(ls, w[1])
        /\ InGrid(ls, w[2])
        /\ Cardinality({d \in Dims : ForwardOf(w[1], w[2], d)}) = 1
        /\ \A i \in Dims : w[2][i] <= U8Max

C7_PopStep ==
    (pc = "loop" /\ pending_edges' # pending_edges) =>
        LET e == Unwrap(popped')
            a == Unwrap(unwrap_index(lengths, e[2]))
        IN  /\ a[e[3]] + 1 <= U8Max
            /\ a[e[3]] = lengths[e[3]] - 1 => (parent' = parent /\ walks' = walks)

C7_SkipOutside ==
    [][/\ C7_PopStep
       /\ WalksForward(walks', lengths')
       /\ \A m \in 1 .. Len(mazes') : WalksForward(mazes'[m].walks, mazes'[m].lengths)]_vars

\* the loop has just popped a candidate of a last position while walks are recorded
C7_Witness ==
    /\ pc = "loop"
    /\ walks # {}
    /\ \E e \in popped :
          LET a == Unwrap(unwrap_index(lengths, e[2]))
          IN  a[e[3]] = lengths[e[3]] - 1

\* C9: during the loop two cells have the same root exactly when walks join them, the
\* number of walks is cellCount minus the number of roots, and no node reaches itself
\* through parent links.
RECURSIVE Above(_, _, _)
\* the nodes met on at most k parent links from n, n excluded
Above(par, n, k) ==
    IF k = 0 \/ par[n] = NoParent THEN {} ELSE {par[n]} \cup Above(par, par[n], k - 1)

ParentForest(par) ==
    \A n \in DOMAIN par : n \notin Above(par, n, Cardinality(DOMAIN par))

C9_RootsMatchWalks ==
    pc = "loop" =>
        /\ ParentForest(parent)
        /\ \A p1 \in DOMAIN cells : \A p2 \in DOMAIN cells :
              (get_root(parent, cells[p1]) = get_root(parent, cells[p2]))
                  <=> (p2 \in Component(walks, {p1}))
        /\ Cardinality(walks)
              = cell_count(lengths) - Cardinality({n \in DOMAIN parent : parent[n] = NoParent})

\* a node two parent links below its root, with walks recorded
C9_Witness ==
    /\ pc = "loop"
    /\ Cardinality(walks) >= 2
    /\ \E n \in DOMAIN parent :
          parent[n] # NoParent /\ parent[parent[n]] # NoParent

\* C6: try_merge(a, b) returns true exactly when a and b were not joined by the earlier
\* calls that returned true; after a true call a and b share a root; a false call
\* changes no parent link.
C6_TryMerge ==
    [][\A c \in call' :
          /\ c.ret <=> (c.b \notin Component(merged, {c.a}))
          /\ c.ret => get_root(nodes', c.a) = get_root(nodes', c.b)
          /\ ~c.ret => nodes' = nodes]_vars

\* a call on two distinct nodes, never merged with each other, that returned false
C6_Witness ==
    \E c \in call :
        /\ ~c.ret
        /\ c.a # c.b
        /\ <<c.a, c.b>> \notin merged
        /\ <<c.b, c.a>> \notin merged

RECURSIVE wrap_index(_, _, _)
\* the mixed-radix sum of the coordinate c from dimension i on, i's place value 1
wrap_index(ls, c, i) ==
    IF i >= DIMS THEN 0 ELSE c[i] + ls[i] * wrap_index(ls, c, i + 1)

\* C8: an index below cellCount decodes to Some(c) with every c[i] < lengths[i] and
\* the mixed-radix sum of c the index again, every cell comes from exactly one index,
\* and an index >= cellCount decodes to None.
C8_IndexBijection ==
    \A u \in idx :
        /\ IF u.index < cell_count(u.lengths)
           THEN \E c \in u.result :
                   /\ u.result = Some(c)
                   /\ InGrid(u.lengths, c)
                   /\ wrap_index(u.lengths, c, 0) = u.index
           ELSE u.result = None
        /\ \A c \in GridCells(u.lengths) :
              Cardinality({j \in 0 .. (cell_count(u.lengths) - 1) :
                              unwrap_index(u.lengths, j) = Some(c)}) = 1

\* an index decoded to a cell off both axes of a grid that is not square
C8_Witness ==
    \E u \in idx : \E c \in u.result :
        /\ c[0] > 0
        /\ c[1] > 0
        /\ u.lengths[0] # u.lengths[1]

\* the spanning trees of the grid graph, as sets of forward pairs
SpanningTrees(ls) ==
    {T \in SUBSET GridEdges(ls) :
        /\ Cardinality(T) = cell_count(ls) - 1
        /\ \A p \in GridCells(ls) : GridCells(ls) \subseteq Component(T, {p})}

CountOf(t) == IF t \in DOMAIN tally.count THEN tally.count[t] ELSE 0

\* C10 as stated: once every ordering of the 2x3 grid's seven in-grid candidates has
\* been run, every spanning tree has been produced by the same number of orderings.
C10_Uniform ==
    tally.next = Orderings =>
        \A t1 \in SpanningTrees(OrderGrid) : \A t2 \in SpanningTrees(OrderGrid) :
            CountOf(t1) = CountOf(t2)

\* C10 amended: every ordering produces a spanning tree and every spanning tree is
\* produced by some ordering, but not equally often: on the 2x3 grid a tree is produced
\* by 300 or by 360 of the 5040 orderings.
C10_EveryTreeSomeOrdering ==
    /\ DOMAIN tally.count \subseteq SpanningTrees(OrderGrid)
    /\ tally.next = Orderings =>
          /\ DOMAIN tally.count = SpanningTrees(OrderGrid)
          /\ {tally.count[t] : t \in DOMAIN tally.count} = {300, 360}

\* all orderings are run and the fifteen spanning trees are counted
C10_Witness ==
    /\ tally.next = Orderings
    /\ Cardinality(DOMAIN tally.count) = 15

====
